---- MODULE Spec2Model ----
(***************************************************************************)
(* A model of shape-eater (src/src/main.rs): the Bevy app's two game       *)
(* states, the entities of the world, the score resources and the systems  *)
(* of the Update schedule, one action per system.  One frame of the app is *)
(* StateTransition, then Physics (the fixed-step schedules run between     *)
(* StateTransition and Update), then the Update systems of the active      *)
(* state in the order main() adds them, then ApplyDeferred (the command    *)
(* queue of the Update schedule is applied at its end).                    *)
(*                                                                         *)
(* Time is counted in tenths of a second.                                  *)
(***************************************************************************)
EXTENDS Integers, Sequences, FiniteSets, TLC

VARIABLES
    state,          \* State<GameState>
    nextState,      \* NextState<GameState>: "None" or the pending state
    pc,             \* the system (or schedule) that runs next
    hitIter,        \* handle_hits: the iterator over the CollidingEntities
    walls,          \* the Wall entities, in spawn order
    covers,         \* the cover sprites, in spawn order
    players,        \* the Player entities, in spawn order
    balls,          \* the Ball entities
    sounds,         \* the assets of the AudioPlayer entities tagged InGameEntity
    deathScreen,    \* the DeathScreenEntity entities, in spawn order
    highScore,      \* HighScore
    currentScore,   \* CurrentScore
    stopwatch,      \* WallBounceStopwatch: elapsed time
    spawnTimer,     \* BallSpawnTimer: elapsed time within the interval
    delta,          \* Time::delta() of the current frame
    commands,       \* the command queue of the Update schedule
    gravity,        \* Gravity
    events,         \* Events<MovementAction>: the directions not read yet
    flips,          \* the parity of the gravity flips made so far (history)
    arg,            \* the argument of a function under test, <<>> when none
    result          \* <<its result>>, <<>> before the call

vars == <<state, nextState, pc, hitIter, walls, covers, players, balls, sounds,
          deathScreen, highScore, currentScore, stopwatch, spawnTimer, delta,
          commands, gravity, events, flips, arg, result>>

\* the variables of the input systems
inputVars == <<gravity, events, flips>>
\* the variables of the specifications of the pure functions
probeVars == <<arg, result>>

(***************************************************************************)
(* Bounds of the model.                                                    *)
(***************************************************************************)
\* at most this many Ball entities alive or reserved at once
MaxBalls == 1
\* at most this many entities in the player's CollidingEntities
MaxHits == 2
\* a frame of play starts only while the player's number is at most this
MaxWeight == 18
\* the stopwatch reading saturates here (above the bounce interval)
MaxElapsed == 2

\* the frame times the model draws from (tenths of a second)
Deltas == {1}
\* the ball numbers the model draws from, out of 1..99
Numbers == {15, 16, 19}
\* the edges the model draws spawn edges from
SpawnEdges == {"LowerBound", "RightBound"}

(***************************************************************************)
(* Constants of the program.                                               *)
(***************************************************************************)
STARTING_NUMBER == 15
\* Timer::from_seconds(0.5, Repeating), in tenths of a second
SPAWN_INTERVAL == 5
\* elapsed_secs_f64() > 0.1, in tenths of a second
BOUNCE_INTERVAL == 1
\* player_velocity.length() > 30.
BOUNCE_SPEED == 30
\* ball_number / 5.
GROWTH_DIVISOR == 5
\* rng.random_range(1..100)
MIN_NUMBER == 1
MAX_NUMBER == 99
\* Gravity(Vec2::NEG_Y * 1000.)
GRAVITY == 1000
\* 10_000. * delta_time, per tenth of a second
MOVE_SPEED == 1000
\* LinearVelocity(movement_direction * 100.)
BALL_SPEED == 100
\* i32::MAX: Numbered holds an i32
I32_MAX == 2147483647

VARIANTS == <<"UpperBound", "LowerBound", "LeftBound", "RightBound">>

value(bound) ==
    CASE bound = "UpperBound" -> 500
      [] bound = "LowerBound" -> -500
      [] bound = "LeftBound"  -> -940
      [] bound = "RightBound" -> 940

GameStates == {"DeathScreen", "InGame"}

Min(a, b) == IF a < b THEN a ELSE b


(***************************************************************************)
(* The entities the systems spawn.                                         *)
(***************************************************************************)
\* setup_game: the four walls, ((width, height), (x, y))
WallLayout ==
    << [size |-> <<1880, 20>>, pos |-> <<0, value("UpperBound")>>],
       [size |-> <<1880, 20>>, pos |-> <<0, value("LowerBound")>>],
       [size |-> <<20, 1020>>, pos |-> <<value("LeftBound"), 0>>],
       [size |-> <<20, 1020>>, pos |-> <<value("RightBound"), 0>>] >>

\* setup_game: the four covers behind the walls
CoverLayout ==
    << [size |-> <<10000, 200>>, pos |-> <<0, value("UpperBound") + 110>>],
       [size |-> <<10000, 200>>, pos |-> <<0, value("LowerBound") - 110>>],
       [size |-> <<200, 10000>>, pos |-> <<value("LeftBound") - 110, 0>>],
       [size |-> <<200, 10000>>, pos |-> <<value("RightBound") + 110, 0>>] >>

\* setup_game: the player bundle (Numbered, Transform, LinearVelocity,
\* CollidingEntities::default())
\* no iteration of handle_hits is in progress
NoIter == [on |-> FALSE, player |-> 0, left |-> {}]

NewPlayer ==
    [num |-> STARTING_NUMBER, pos |-> <<200, 0>>, vel |-> <<0, 0>>, hits |-> {}]

\* HighScoreText with >= for >: a tie is announced as a new high score
HighScoreTextOrEqual(current_score, high_score) ==
    IF current_score >= high_score
    THEN <<"new high score!">>
    ELSE <<"high score - ", high_score>>

\* setup_death_screen: the text of the third line
HighScoreText(current_score, high_score) ==
    IF current_score > high_score
    THEN <<"new high score!">>
    ELSE <<"high score - ", high_score>>

\* UpdatedHighScore without the comparison: the last score always wins
UpdatedHighScoreAlways(current_score, high_score) == current_score

\* setup_death_screen: the value HighScore holds afterwards
UpdatedHighScore(current_score, high_score) ==
    IF current_score > high_score THEN current_score ELSE high_score

\* setup_death_screen: the two nodes and the three texts
DeathScreenLayout(current_score, high_score) ==
    << [kind |-> "Node", text |-> <<>>],
       [kind |-> "Node", text |-> <<>>],
       [kind |-> "Text", text |-> <<"Game over">>],
       [kind |-> "Text", text |-> <<"score - ", current_score>>],
       [kind |-> "Text", text |-> HighScoreText(current_score, high_score)] >>

\* FirstUpdateSystem without the run conditions of the system sets
FirstUpdateSystemUngated(s) == "restart_game"

\* what execution of the Update schedule starts with in each state
FirstUpdateSystem(s) == IF s = "InGame" THEN "tick_stopwatch" ELSE "restart_game"

(***************************************************************************)
(* main(): the resources inserted and the state the app starts in.  The    *)
(* startup transition runs OnEnter(InGame) on an empty world.              *)
(***************************************************************************)
Startup ==
    /\ state = "InGame"
    /\ nextState = "None"
    /\ pc = "OnEnter"
    /\ hitIter = NoIter
    /\ walls = <<>>
    /\ covers = <<>>
    /\ players = <<>>
    /\ balls = {}
    /\ sounds = {}
    /\ deathScreen = <<>>
    /\ highScore = 0
    /\ currentScore = 0
    /\ stopwatch = 0
    /\ spawnTimer = 0
    /\ delta \in Deltas
    /\ commands = <<>>
    /\ gravity = <<0, -GRAVITY>>
    /\ events = <<>>
    /\ flips = 0

Init ==
    /\ Startup
    /\ arg = <<>>
    /\ result = <<>>

(***************************************************************************)
(* The transition schedules.  Each holds one system, whose commands are    *)
(* applied when the schedule ends, so they are part of the action.         *)
(***************************************************************************)
\* OnEnter(GameState::InGame)
setup_game ==
    /\ pc = "OnEnter"
    /\ state = "InGame"
    /\ walls' = walls \o WallLayout
    /\ covers' = covers \o CoverLayout
    /\ players' = Append(players, NewPlayer)
    /\ pc' = "Physics"
    /\ UNCHANGED <<state, nextState, hitIter, balls, sounds, deathScreen,
                   highScore, currentScore, stopwatch, spawnTimer, delta, commands>>
    /\ UNCHANGED inputVars
    /\ UNCHANGED probeVars

\* InGameEntity with the component missing from the ball bundle
InGameEntityButBall(kind) == kind \in {"Wall", "Cover", "Player", "Sound"}

\* InGameEntity with the component missing from the player bundle
InGameEntityButPlayer(kind) == kind \in {"Wall", "Cover", "Ball", "Sound"}

\* The kinds of entity whose bundle holds the InGameEntity component: the
\* walls, the covers, the player, the balls and every AudioPlayer spawned.
InGameEntity(kind) == kind \in {"Wall", "Cover", "Player", "Ball", "Sound"}

\* player_score reading the starting number instead of the player's
player_score_start(player) == STARTING_NUMBER

\* handle_game_over: let Numbered(player_score) = player_score_query.single()
player_score(player) == player.num

\* handle_game_over: what is left of the entities of one kind once the
\* system's despawn commands are applied (despawn_recursive of every entity
\* the InGameEntity query returns)
Teardown(kind, alive, none) == IF InGameEntity(kind) THEN none ELSE alive

\* OnExit(GameState::InGame).  The query returns the entities alive when the
\* system runs; the AudioPlayer it spawns is not among them, its spawn being
\* a command applied with the despawns, so that emitter stays alive.
handle_game_over ==
    /\ pc = "OnExit"
    /\ state = "DeathScreen"
    /\ IF Len(players) # 1
       THEN \* Query::single() panics
            /\ pc' = "panic"
            /\ UNCHANGED <<walls, covers, players, balls, sounds, currentScore>>
       ELSE /\ currentScore' = player_score(players[1])
            /\ walls' = Teardown("Wall", walls, <<>>)
            /\ covers' = Teardown("Cover", covers, <<>>)
            /\ players' = Teardown("Player", players, <<>>)
            /\ balls' = Teardown("Ball", balls, {})
            /\ sounds' = Teardown("Sound", sounds, {}) \cup {"game_over"}
            /\ pc' = "OnEnter"
    /\ UNCHANGED <<state, nextState, hitIter, deathScreen, highScore, stopwatch,
                   spawnTimer, delta, commands>>
    /\ UNCHANGED inputVars
    /\ UNCHANGED probeVars

\* OnEnter(GameState::DeathScreen)
setup_death_screen ==
    /\ pc = "OnEnter"
    /\ state = "DeathScreen"
    /\ highScore' = UpdatedHighScore(currentScore, highScore)
    /\ deathScreen' = deathScreen \o DeathScreenLayout(currentScore, highScore)
    /\ pc' = "Physics"
    /\ UNCHANGED <<state, nextState, hitIter, walls, covers, players, balls, sounds,
                   currentScore, stopwatch, spawnTimer, delta, commands>>
    /\ UNCHANGED inputVars
    /\ UNCHANGED probeVars

\* DeathScreenEntity with the component missing from the two Node bundles
DeathScreenEntityOnTexts(entity) == entity.kind = "Text"

\* The entities whose bundle holds the DeathScreenEntity component: the two
\* nodes and the three texts setup_death_screen spawns.
DeathScreenEntity(entity) == entity.kind \in {"Node", "Text"}

\* OnExit(GameState::DeathScreen): every entity the DeathScreenEntity query
\* returns is despawned
death_screen_exit ==
    /\ pc = "OnExit"
    /\ state = "InGame"
    /\ deathScreen' = SelectSeq(deathScreen, LAMBDA entity : ~DeathScreenEntity(entity))
    /\ pc' = "OnEnter"
    /\ UNCHANGED <<state, nextState, hitIter, walls, covers, players, balls, sounds,
                   highScore, currentScore, stopwatch, spawnTimer, delta, commands>>
    /\ UNCHANGED inputVars
    /\ UNCHANGED probeVars

\* Update, in DeathScreenSet; r: keys.just_pressed(KeyCode::KeyR)
restart_game ==
    /\ pc = "restart_game"
    /\ \E r \in BOOLEAN : nextState' = IF r THEN "InGame" ELSE nextState
    /\ pc' = "ApplyDeferred"
    /\ UNCHANGED <<state, hitIter, walls, covers, players, balls, sounds, deathScreen,
                   highScore, currentScore, stopwatch, spawnTimer, delta, commands>>
    /\ UNCHANGED inputVars
    /\ UNCHANGED probeVars


(***************************************************************************)
(* Helpers of the Update systems.                                          *)
(***************************************************************************)
\* Bound::random(), over the edges the model draws from
RandomBounds == {VARIANTS[i] : i \in DOMAIN VARIANTS} \cap SpawnEdges

\* the coordinates the model draws along an edge
Coordinates == {0}

\* random_point_on_bound: the points it may return when random_range draws
\* from coords (random_range(a..b) returns a <= c < b)
PointsOnBound(bound, coords) ==
    IF bound \in {"UpperBound", "LowerBound"}
    THEN {<<x, value(bound)>> :
            x \in {c \in coords : value("LeftBound") <= c /\ c < value("RightBound")}}
    ELSE {<<value(bound), y>> :
            y \in {c \in coords : value("LowerBound") <= c /\ c < value("UpperBound")}}

\* random_point_on_bound: the points it may return, over Coordinates
random_point_on_bound(bound) == PointsOnBound(bound, Coordinates)

\* other_random without the filter: any edge, the spawn edge included
other_random_unfiltered(bound) == {VARIANTS[i] : i \in DOMAIN VARIANTS}

\* Bound::other_random: the edges it may return
other_random(bound) == {VARIANTS[i] : i \in DOMAIN VARIANTS} \ {bound}

\* LinearVelocity((target - starting_point).normalize() * 100.): the vector
\* it points along and its length; normalize() of the zero vector is not a
\* unit vector but NaN (a panic where glam's assertions are on), and the
\* velocity is then not finite
LinearVelocityOf(starting_point, target) ==
    LET along == <<target[1] - starting_point[1], target[2] - starting_point[2]>>
    IN IF along = <<0, 0>>
       THEN [along |-> along, speed |-> 0, finite |-> FALSE]
       ELSE [along |-> along, speed |-> BALL_SPEED, finite |-> TRUE]

\* is_out_of_bounds with >= and <=: a point on an edge is out
is_out_of_bounds_closed(point) ==
    \/ point[1] <= value("LeftBound")
    \/ point[1] >= value("RightBound")
    \/ point[2] >= value("UpperBound")
    \/ point[2] <= value("LowerBound")

is_out_of_bounds(point) ==
    \/ point[1] < value("LeftBound")
    \/ point[1] > value("RightBound")
    \/ point[2] > value("UpperBound")
    \/ point[2] < value("LowerBound")

\* (ball_number as f32 / 5.).ceil() as i32
Ceil(n, d) == -((-n) \div d)

\* the player's number is not raised by an absorption
player_number_change_none(ball_number) == 0

\* player_number_change with the sign lost: the player shrinks
player_number_change_negated(ball_number) == -Ceil(ball_number, GROWTH_DIVISOR)

\* player_number_change rounding down
player_number_change_floor(ball_number) == ball_number \div GROWTH_DIVISOR

player_number_change(ball_number) == Ceil(ball_number, GROWTH_DIVISOR)

\* IsLethal with >= for >: a ball of the player's own number kills
IsLethalOrEqual(ball_number, player_number) == ball_number >= player_number

\* IsLethal off by one: a ball one above the player's number is absorbed
IsLethalOffByOne(ball_number, player_number) == ball_number > player_number + 1

\* handle_hits: *ball_number > player_number.0
IsLethal(ball_number, player_number) == ball_number > player_number

\* BounceAudible without the stopwatch test
BounceAudibleNoDebounce(velocity, elapsed) ==
    velocity[1] * velocity[1] + velocity[2] * velocity[2] > BOUNCE_SPEED * BOUNCE_SPEED

\* handle_hits: player_velocity.length() > 30. && elapsed_secs_f64() > 0.1
BounceAudible(velocity, elapsed) ==
    /\ velocity[1] * velocity[1] + velocity[2] * velocity[2] > BOUNCE_SPEED * BOUNCE_SPEED
    /\ elapsed > BOUNCE_INTERVAL

\* Stopwatch::tick
StopwatchTick(elapsed, dt) == Min(elapsed + dt, MaxElapsed)

\* Stopwatch::reset
StopwatchReset == 0

\* the entity ids of balls alive, or reserved by a queued spawn
BallIds == 1..MaxBalls
UsedIds ==
    {b.id : b \in balls}
      \cup {commands[k].ball.id : k \in {j \in DOMAIN commands : commands[j].op = "spawn_ball"}}
FreeIds == BallIds \ UsedIds
LowestOf(S) == CHOOSE x \in S : \A y \in S : x <= y

\* commands
NoBall == [id |-> 0, num |-> 0, pos |-> <<0, 0>>, vel |-> LinearVelocityOf(<<0, 0>>, <<0, 0>>)]
SpawnBall(ball) == [op |-> "spawn_ball", ball |-> ball, id |-> ball.id, sound |-> ""]
SpawnSound(asset) == [op |-> "spawn_sound", ball |-> NoBall, id |-> 0, sound |-> asset]
Despawn(id) == [op |-> "despawn", ball |-> NoBall, id |-> id, sound |-> ""]

\* Commands applied in queue order to the balls and the sound emitters
RECURSIVE ApplyCommands(_, _)
ApplyCommands(queue, world) ==
    IF queue = <<>> THEN world
    ELSE LET c == Head(queue)
             next == CASE c.op = "spawn_ball" ->
                            [world EXCEPT !.balls =
                               @ \cup {[id |-> c.ball.id, num |-> c.ball.num]}]
                       [] c.op = "spawn_sound" ->
                            [world EXCEPT !.sounds = @ \cup {c.sound}]
                       [] c.op = "despawn" ->
                            [world EXCEPT !.balls = {b \in @ : b.id # c.id}]
         IN ApplyCommands(Tail(queue), next)


(***************************************************************************)
(* The Update systems of InGameSet, in the order main() adds them.         *)
(***************************************************************************)
tick_stopwatch ==
    /\ pc = "tick_stopwatch"
    /\ stopwatch' = StopwatchTick(stopwatch, delta)
    /\ pc' = "keyboard_input"
    /\ UNCHANGED <<state, nextState, hitIter, walls, covers, players, balls, sounds,
                   deathScreen, highScore, currentScore, spawnTimer, delta, commands>>
    /\ UNCHANGED inputVars
    /\ UNCHANGED probeVars

\* the keys the model lets be held down when keyboard_input runs
PressedKeys == SUBSET {"KeyD", "KeyA"}

\* keyboard_input: the events sent for the keys held down, D before A
Sent(keys) ==
    (IF "KeyD" \in keys THEN <<1>> ELSE <<>>) \o (IF "KeyA" \in keys THEN <<-1>> ELSE <<>>)

keyboard_input ==
    /\ pc = "keyboard_input"
    /\ \E keys \in PressedKeys : events' = events \o Sent(keys)
    /\ pc' = "change_gravity"
    /\ UNCHANGED <<state, nextState, hitIter, walls, covers, players, balls, sounds,
                   deathScreen, highScore, currentScore, stopwatch, spawnTimer, delta,
                   commands, gravity, flips>>
    /\ UNCHANGED probeVars

\* Negated setting the gravity to point up, whatever it was
NegatedUpward(v) == <<0, GRAVITY>>

\* change_gravity: gravity.0 * -1.
Negated(v) == <<v[1] * (-1), v[2] * (-1)>>

\* space: keys.just_pressed(KeyCode::Space)
change_gravity ==
    /\ pc = "change_gravity"
    /\ \E space \in BOOLEAN :
          /\ gravity' = IF space THEN Negated(gravity) ELSE gravity
          /\ flips' = IF space THEN (flips + 1) % 2 ELSE flips
    /\ pc' = "movement"
    /\ UNCHANGED <<state, nextState, hitIter, walls, covers, players, balls, sounds,
                   deathScreen, highScore, currentScore, stopwatch, spawnTimer, delta,
                   commands, events>>
    /\ UNCHANGED probeVars

\* Moved adding each direction to the horizontal velocity
RECURSIVE MovedAdding(_, _, _)
MovedAdding(velocity, queue, dt) ==
    IF queue = <<>> THEN velocity
    ELSE MovedAdding(<<velocity[1] + MOVE_SPEED * dt * Head(queue), velocity[2]>>,
                     Tail(queue), dt)

\* movement: the loop over the events read,
\* player_velocity.x = 10_000. * delta_time * direction
RECURSIVE Moved(_, _, _)
Moved(velocity, queue, dt) ==
    IF queue = <<>> THEN velocity
    ELSE Moved(<<MOVE_SPEED * dt * Head(queue), velocity[2]>>, Tail(queue), dt)

movement ==
    /\ pc = "movement"
    /\ IF Len(players) # 1
       THEN \* Query::single_mut() panics
            /\ pc' = "panic"
            /\ UNCHANGED <<players, events>>
       ELSE /\ players' = [players EXCEPT ![1].vel = Moved(@, events, delta)]
            /\ events' = <<>>
            /\ pc' = "spawn_ball"
    /\ UNCHANGED <<state, nextState, hitIter, walls, covers, balls, sounds,
                   deathScreen, highScore, currentScore, stopwatch, spawnTimer, delta,
                   commands, gravity, flips>>
    /\ UNCHANGED probeVars

\* Timer::tick of a repeating timer, then the spawn when it just finished
spawn_ball ==
    /\ pc = "spawn_ball"
    /\ LET elapsed == spawnTimer + delta
       IN IF elapsed < SPAWN_INTERVAL
          THEN /\ spawnTimer' = elapsed
               /\ UNCHANGED commands
          ELSE /\ spawnTimer' = elapsed % SPAWN_INTERVAL
               /\ FreeIds # {}
               /\ \E number \in Numbers, bound \in RandomBounds :
                    \E starting_point \in random_point_on_bound(bound) :
                       \E target \in UNION {random_point_on_bound(other) :
                                               other \in other_random(bound)} :
                          commands' = Append(commands,
                              SpawnBall([id |-> LowestOf(FreeIds), num |-> number,
                                         pos |-> starting_point,
                                         vel |-> LinearVelocityOf(starting_point, target)]))
    /\ pc' = "despawn_out_of_bounds_balls"
    /\ UNCHANGED <<state, nextState, hitIter, walls, covers, players, balls, sounds,
                   deathScreen, highScore, currentScore, stopwatch, delta>>
    /\ UNCHANGED inputVars
    /\ UNCHANGED probeVars

\* the translations the model lets the physics step have given a ball by
\* the time the system reads them: on the right edge, and beyond it
BallPoints == {<<940, 0>>, <<941, 0>>}

despawn_out_of_bounds_balls ==
    /\ pc = "despawn_out_of_bounds_balls"
    /\ \E translation \in [{b.id : b \in balls} -> BallPoints] :
          LET out == SelectSeq([i \in BallIds |-> i],
                        LAMBDA i : /\ \E b \in balls : b.id = i
                                   /\ is_out_of_bounds(translation[i]))
          IN commands' = commands \o [k \in DOMAIN out |-> Despawn(out[k])]
    /\ pc' = "handle_hits"
    /\ UNCHANGED <<state, nextState, hitIter, walls, covers, players, balls, sounds,
                   deathScreen, highScore, currentScore, stopwatch, spawnTimer, delta>>
    /\ UNCHANGED inputVars
    /\ UNCHANGED probeVars

\* handle_hits: the iterator <<player, contacts left>> at or after `at` that
\* has a contact left; <<Len(players) + 1, {}>> when the loops are over
RECURSIVE Seek(_)
Seek(at) ==
    IF at[1] > Len(players) THEN <<Len(players) + 1, {}>>
    ELSE IF at[2] = {}
         THEN Seek(<<at[1] + 1,
                     IF at[1] < Len(players) THEN players[at[1] + 1].hits ELSE {}>>)
         ELSE at

\* the iterator handle_hits resumes from: a new one when the system starts
Resume ==
    IF hitIter.on THEN <<hitIter.player, hitIter.left>>
    ELSE <<1, IF players = <<>> THEN {} ELSE players[1].hits>>

LoopsOver(at) == Seek(at)[1] > Len(players)

\* ball_query.get(hit_entity) and wall_query.get(hit_entity)
IsBall(hit) == hit.kind = "Ball" /\ \E b \in balls : b.id = hit.id
IsWall(hit) == hit.kind = "Wall" /\ hit.id \in DOMAIN walls
BallOf(hit) == CHOOSE b \in balls : b.id = hit.id

\* the loop goes on after a lethal contact: no return
ReturnedLoopingOn(rest) == rest

\* return: what is left of the iteration after the lethal contact is dropped
Returned(rest) == NoIter

\* whether a + b passes i32::MAX, for b > 0
Overflows(a, b) == b > 0 /\ a > I32_MAX - b

\* a + b in an i32 where overflow checks are off: two's complement wrap-around
wrapping_add(a, b) ==
    IF Overflows(a, b) THEN (-I32_MAX - 1) + (b - (I32_MAX - a) - 1) ELSE a + b

\* One step of handle_hits: the body of the inner loop for the contact the
\* iterator of the EntityHashSet yields next (any of those left), and the end
\* of the system when no contact is left or the body returns.
handle_hits ==
    /\ pc = "handle_hits"
    /\ IF LoopsOver(Resume)
       THEN /\ pc' = "ApplyDeferred"
            /\ hitIter' = NoIter
            /\ UNCHANGED <<nextState, players, stopwatch, commands>>
       ELSE LET at == Seek(Resume)
                player == players[at[1]]
            IN \E hit \in at[2] :
                 LET after == <<at[1], at[2] \ {hit}>>
                     rest == IF LoopsOver(after) THEN NoIter
                             ELSE [on |-> TRUE, player |-> Seek(after)[1],
                                   left |-> Seek(after)[2]]
                     continue ==
                        /\ hitIter' = rest
                        /\ pc' = IF LoopsOver(after) THEN "ApplyDeferred" ELSE pc
                     change == player_number_change(BallOf(hit).num)
                 IN IF IsBall(hit)
                    THEN IF IsLethal(BallOf(hit).num, player.num)
                         THEN /\ nextState' = "DeathScreen"
                              /\ hitIter' = Returned(rest)
                              /\ pc' = IF hitIter'.on THEN pc ELSE "ApplyDeferred"
                              /\ UNCHANGED <<players, stopwatch, commands>>
                         ELSE /\ \/ /\ commands' = commands \o
                                          <<Despawn(hit.id), SpawnSound("ball_eaten")>>
                                    /\ players' = [players EXCEPT ![at[1]].num =
                                                     wrapping_add(@, change)]
                                    /\ continue
                                 \/ /\ Overflows(player.num, change)
                                    /\ commands' = Append(commands, Despawn(hit.id))
                                    /\ pc' = "panic"
                                    /\ hitIter' = NoIter
                                    /\ UNCHANGED players
                              /\ UNCHANGED <<nextState, stopwatch>>
                    ELSE IF IsWall(hit) /\ BounceAudible(player.vel, stopwatch)
                         THEN /\ stopwatch' = StopwatchReset
                              /\ commands' = Append(commands, SpawnSound("wall_bounce"))
                              /\ continue
                              /\ UNCHANGED <<nextState, players>>
                         ELSE /\ continue
                              /\ UNCHANGED <<nextState, players, stopwatch, commands>>
    /\ UNCHANGED <<state, walls, covers, balls, sounds, deathScreen, highScore,
                   currentScore, spawnTimer, delta>>
    /\ UNCHANGED inputVars
    /\ UNCHANGED probeVars

(***************************************************************************)
(* The end of the Update schedule: its command queue is applied.           *)
(***************************************************************************)
ApplyDeferred ==
    /\ pc = "ApplyDeferred"
    /\ LET world == ApplyCommands(commands, [balls |-> balls, sounds |-> sounds])
       IN /\ balls' = world.balls
          /\ sounds' = world.sounds
    /\ commands' = <<>>
    /\ pc' = "StateTransition"
    /\ UNCHANGED <<state, nextState, hitIter, walls, covers, players, deathScreen,
                   highScore, currentScore, stopwatch, spawnTimer, delta>>
    /\ UNCHANGED inputVars
    /\ UNCHANGED probeVars

(***************************************************************************)
(* The physics step (PhysicsPlugins): it moves the player and rewrites its *)
(* CollidingEntities; Update follows it in the same frame.  It moves the   *)
(* balls too: only despawn_out_of_bounds_balls reads where to, and the     *)
(* model draws their translations there.                                   *)
(***************************************************************************)
\* the positions the model gives a player: in the field, away from every
\* wall, and in the upper right corner, against two walls
PlayerPoints == {<<200, 0>>, <<929, 489>>}
\* the velocities the physics step leaves it with: of length 30 exactly
Velocities == {<<18, 24>>}

Abs(x) == IF x < 0 THEN -x ELSE x

\* the player's square (side num * SIZE_FACTOR, 3/2) touches the wall's rectangle
Touches(num, pos, wall) ==
    /\ 4 * Abs(pos[1] - wall.pos[1]) <= 2 * wall.size[1] + 3 * num
    /\ 4 * Abs(pos[2] - wall.pos[2]) <= 2 * wall.size[2] + 3 * num

\* the entities the player at pos can be in contact with: any ball (where
\* the balls are is not modelled) and the walls its square touches
Contacts(num, pos) ==
    {[kind |-> "Ball", id |-> b.id] : b \in balls}
      \cup {[kind |-> "Wall", id |-> w] : w \in {k \in DOMAIN walls : Touches(num, pos, walls[k])}}

\* the CollidingEntities the physics step may leave: the walls touched and
\* any of the balls, at most MaxHits contacts
ContactSets(S) ==
    {hits \in SUBSET S : /\ Cardinality(hits) <= MaxHits
                         /\ \A c \in S : c.kind = "Wall" => c \in hits}

Physics ==
    /\ pc = "Physics"
    /\ IF players = <<>>
       THEN UNCHANGED players
       ELSE \E pos \in PlayerPoints, vel \in Velocities :
              \E hits \in ContactSets(Contacts(players[1].num, pos)) :
                 players' = [i \in DOMAIN players |->
                               [players[i] EXCEPT !.pos = pos, !.vel = vel, !.hits = hits]]
    /\ pc' = FirstUpdateSystem(state)
    /\ UNCHANGED <<state, nextState, hitIter, walls, covers, balls, sounds,
                   deathScreen, highScore, currentScore, stopwatch, spawnTimer, delta,
                   commands>>
    /\ UNCHANGED inputVars
    /\ UNCHANGED probeVars

(***************************************************************************)
(* The start of a frame: Time is updated and the StateTransition schedule  *)
(* applies the pending NextState, if any.                                  *)
(***************************************************************************)
WithinBounds == \A i \in DOMAIN players : players[i].num <= MaxWeight

StateTransition ==
    /\ pc = "StateTransition"
    /\ delta' \in Deltas
    /\ IF nextState = "None"
       THEN /\ WithinBounds
            /\ pc' = "Physics"
            /\ UNCHANGED <<state, nextState>>
       ELSE /\ state' = nextState
            /\ nextState' = "None"
            /\ pc' = "OnExit"
    /\ UNCHANGED <<hitIter, walls, covers, players, balls, sounds, deathScreen,
                   highScore, currentScore, stopwatch, spawnTimer, commands>>
    /\ UNCHANGED inputVars
    /\ UNCHANGED probeVars

Next ==
    \/ StateTransition
    \/ handle_game_over
    \/ setup_death_screen
    \/ death_screen_exit
    \/ setup_game
    \/ restart_game
    \/ tick_stopwatch
    \/ keyboard_input
    \/ change_gravity
    \/ movement
    \/ spawn_ball
    \/ despawn_out_of_bounds_balls
    \/ handle_hits
    \/ ApplyDeferred
    \/ Physics

Spec == Init /\ [][Next]_vars

(***************************************************************************)
(* is_out_of_bounds as a function of its argument: the specification draws *)
(* a point around the four edges and calls it.                             *)
(***************************************************************************)
\* the coordinates drawn: on each edge, next to it on both sides, far off
EdgeXs == {-2000, -941, -940, -939, 0, 939, 940, 941, 2000}
EdgeYs == {-2000, -501, -500, -499, 0, 499, 500, 501, 2000}

InitOutOfBounds ==
    /\ Startup
    /\ arg \in EdgeXs \X EdgeYs
    /\ result = <<>>

CallOutOfBounds ==
    /\ arg # <<>>
    /\ result = <<>>
    /\ result' = <<is_out_of_bounds(arg)>>
    /\ UNCHANGED <<state, nextState, pc, hitIter, walls, covers, players, balls,
                   sounds, deathScreen, highScore, currentScore, stopwatch,
                   spawnTimer, delta, commands, gravity, events, flips, arg>>

NextOutOfBounds == CallOutOfBounds

SpecOutOfBounds == InitOutOfBounds /\ [][NextOutOfBounds]_vars

(***************************************************************************)
(* The velocity spawn_ball gives a ball as a function of its random draws: *)
(* the specification draws the spawn edge, the aim edge and a point on     *)
(* each, and computes the velocity.                                        *)
(***************************************************************************)
\* the coordinates drawn along an edge: both ends of each range (the lower
\* one can be drawn, the upper one cannot) and the middle
EdgeCoordinates == {-940, -500, 0, 499, 939}

InitVelocity ==
    /\ Startup
    /\ arg \in UNION {
          UNION {{<<bound, starting_point, other, target>> :
                    starting_point \in PointsOnBound(bound, EdgeCoordinates),
                    target \in PointsOnBound(other, EdgeCoordinates)} :
                 other \in other_random(bound)} :
          bound \in {VARIANTS[i] : i \in DOMAIN VARIANTS}}
    /\ result = <<>>

CallVelocity ==
    /\ arg # <<>>
    /\ result = <<>>
    /\ result' = <<LinearVelocityOf(arg[2], arg[4])>>
    /\ UNCHANGED <<state, nextState, pc, hitIter, walls, covers, players, balls,
                   sounds, deathScreen, highScore, currentScore, stopwatch,
                   spawnTimer, delta, commands, gravity, events, flips, arg>>

NextVelocity == CallVelocity

SpecVelocity == InitVelocity /\ [][NextVelocity]_vars

(***************************************************************************)
(* handle_hits on its own: one tick of InGame taken up where handle_hits   *)
(* starts, with the numbers and the contacts a longer round can lead to.   *)
(***************************************************************************)
\* the most balls alive in such a tick
MaxTickBalls == 2
\* the player's number: the starting one, the largest a ball can have, one
\* that two absorptions of 20 bring to i32::MAX exactly, and one within an
\* absorption of i32::MAX (every number from 16 on is the sum of 15 and of
\* changes of 1 to 20)
TickPlayerNumbers == {STARTING_NUMBER, MAX_NUMBER, I32_MAX - 40, I32_MAX - 10}
\* the balls' numbers: the player's starting one, the next, and the largest
TickBallNumbers == {STARTING_NUMBER, STARTING_NUMBER + 1, MAX_NUMBER}
\* a square this wide touches every wall wherever it is in the field
FieldWide == 2000

\* the CollidingEntities of the tick: the walls touched and any of the balls
TickContactSets(S) ==
    {hits \in SUBSET S : \A c \in S : c.kind = "Wall" => c \in hits}

InitTick ==
    /\ state = "InGame"
    /\ nextState = "None"
    /\ pc = "handle_hits"
    /\ hitIter = NoIter
    /\ walls = WallLayout
    /\ covers = CoverLayout
    /\ \E k \in 0..MaxTickBalls :
          \E number \in [1..k -> TickBallNumbers] :
             balls = {[id |-> i, num |-> number[i]] : i \in 1..k}
    /\ \E num \in TickPlayerNumbers, pos \in PlayerPoints, vel \in Velocities :
          \E hits \in TickContactSets(Contacts(Min(num, FieldWide), pos)) :
             players = <<[NewPlayer EXCEPT !.num = num, !.pos = pos,
                                          !.vel = vel, !.hits = hits]>>
    /\ sounds = {}
    /\ deathScreen = <<>>
    /\ highScore = 0
    /\ currentScore = 0
    /\ stopwatch \in {StopwatchReset, MaxElapsed}
    /\ spawnTimer = 0
    /\ delta \in Deltas
    /\ commands = <<>>
    /\ gravity = <<0, -GRAVITY>>
    /\ events = <<>>
    /\ flips = 0
    /\ arg = <<>>
    /\ result = <<>>

NextTick ==
    \/ handle_hits
    \/ ApplyDeferred

SpecTick == InitTick /\ [][NextTick]_vars

(***************************************************************************)
(* Type correctness.                                                       *)
(***************************************************************************)
TypeOK ==
    /\ state \in GameStates
    /\ nextState \in GameStates \cup {"None"}
    /\ highScore \in Nat
    /\ currentScore \in Nat
    /\ stopwatch \in 0..MaxElapsed
    /\ spawnTimer \in 0..(SPAWN_INTERVAL - 1)
    /\ delta \in Deltas
    /\ \A b \in balls : b.id \in BallIds /\ b.num \in MIN_NUMBER..MAX_NUMBER


(***************************************************************************)
(* Properties.                                                             *)
(***************************************************************************)
\* handle_hits is about to run the body of its inner loop on a contact
Processing == pc = "handle_hits" /\ ~LoopsOver(Resume)
CurAt == Seek(Resume)
CurPlayer == players[CurAt[1]]
\* the contacts the iterator has not yielded yet
Left == CurAt[2]
\* the step runs the body of the inner loop on `hit`: the iterator is left
\* without it, or it was the last contact
Yields(hit) ==
    /\ hit \in Left
    /\ \/ Left = {hit}
       \/ hitIter'.on /\ hitIter'.player = CurAt[1] /\ hitIter'.left = Left \ {hit}
\* the contact is with a ball no heavier than the player / heavier than it
Absorbable(hit) == IsBall(hit) /\ BallOf(hit).num <= CurPlayer.num
Lethal(hit) == IsBall(hit) /\ BallOf(hit).num > CurPlayer.num

\* ceil(w / 5): the least k with 5 * k >= w
CeilFifth(w) == CHOOSE k \in 0..w : 5 * k >= w /\ 5 * (k - 1) < w

\* the number of queued spawns of a sound
RECURSIVE CountSound(_, _)
CountSound(queue, asset) ==
    IF queue = <<>> THEN 0
    ELSE (IF Head(queue).op = "spawn_sound" /\ Head(queue).sound = asset THEN 1 ELSE 0)
           + CountSound(Tail(queue), asset)

\* C1: when handle_hits processes a contact with a ball of number w while the
\* player's number is p and w <= p, the player's number becomes p + ceil(w/5),
\* the despawn of that ball and the spawn of the ball_eaten sound are queued,
\* and neither the state nor the pending state changes; when the queue is
\* applied the ball is gone from the world.
C1_Absorption ==
    [][ /\ Processing =>
              \A hit \in Left :
                 (Absorbable(hit) /\ Yields(hit)) =>
                    /\ players'[CurAt[1]].num =
                          CurPlayer.num + CeilFifth(BallOf(hit).num)
                    /\ commands' =
                          commands \o <<Despawn(hit.id), SpawnSound("ball_eaten")>>
                    /\ nextState' = nextState
                    /\ state' = state
        /\ pc = "ApplyDeferred" =>
              \A k \in DOMAIN commands :
                 commands[k].op = "despawn" => ~\E b \in balls' : b.id = commands[k].id
      ]_vars

\* C1 witness: the player absorbed a ball of its own number (15 = 15, so it
\* holds 18), then a smaller one, and both balls are gone from the world.
C1_Witness ==
    /\ pc = "StateTransition"
    /\ state = "InGame"
    /\ Len(players) = 1
    /\ players[1].num = 21
    /\ "ball_eaten" \in sounds
    /\ balls = {}

\* C2: when handle_hits processes a contact with a ball of number w > p, the
\* pending state becomes DeathScreen, the system returns and the player's
\* number is untouched; the pending transition is then taken at the next
\* StateTransition with the player's number still p, and handle_game_over
\* stores that number in CurrentScore.
C2_LethalContact ==
    [][ /\ Processing =>
              LET dies == /\ nextState' = "DeathScreen"
                          /\ pc' = "ApplyDeferred"
                          /\ players' = players
                          /\ state' = "InGame"
              IN /\ \A hit \in Left : (Lethal(hit) /\ Yields(hit)) => dies
                 /\ (\A hit \in Left : Lethal(hit)) => dies
                 /\ nextState' # nextState => \E hit \in Left : Lethal(hit)
        /\ nextState = "DeathScreen" =>
              /\ state = "InGame"
              /\ Len(players) = 1
              /\ Len(players') = 1
              /\ players'[1].num = players[1].num
              /\ IF pc = "StateTransition"
                 THEN state' = "DeathScreen" /\ pc' = "OnExit"
                 ELSE nextState' = "DeathScreen"
        /\ (pc = "OnExit" /\ state = "DeathScreen") =>
              /\ Len(players) = 1
              /\ currentScore' = players[1].num
              /\ pc' = "OnEnter"
      ]_vars

\* C2 witness: the round ended on a lethal contact met at number 18, after an
\* absorption in the same round, and CurrentScore holds 18.
C2_Witness ==
    /\ state = "DeathScreen"
    /\ pc = "OnEnter"
    /\ currentScore = 18
    /\ players = <<>>

\* C3: HighScore never decreases, and it changes only in the step that enters
\* the DeathScreen state (setup_death_screen).
C3_HighScoreMonotone ==
    [][ /\ highScore' >= highScore
        /\ highScore' # highScore => pc = "OnEnter" /\ state = "DeathScreen"
      ]_vars

\* C3 witness: a round ended below the high score, which was kept.
C3_Witness ==
    /\ state = "DeathScreen"
    /\ pc = "restart_game"
    /\ highScore = 18
    /\ currentScore = 15

\* C4: entering DeathScreen with CurrentScore c and HighScore h leaves
\* HighScore at max(h, c); the third text is "new high score!" exactly when
\* c > h, and otherwise HighScore stays h and the text is "high score - h",
\* also when c = h.
C4_EnterGameOver ==
    [][ (pc = "OnEnter" /\ state = "DeathScreen") =>
           LET c == currentScore
               h == highScore
               text == deathScreen'[Len(deathScreen')].text
           IN /\ highScore' = IF h >= c THEN h ELSE c
              /\ (c > h) <=> (text = <<"new high score!">>)
              /\ (c <= h) => (highScore' = h /\ text = <<"high score - ", h>>)
      ]_vars

\* C4 witness: a round ended on a tie, c = h = 15, and the death screen shows
\* "high score - 15".
C4_Witness ==
    /\ state = "DeathScreen"
    /\ pc = "Physics"
    /\ currentScore = 15
    /\ highScore = 15
    /\ Len(deathScreen) = 5
    /\ deathScreen[5].text = <<"high score - ", 15>>

\* C5: every run of setup_game, the first and every later one, leaves exactly
\* four walls, one on each edge, exactly one player of number 15 at
\* (200, 0), no ball, and no queued command that could add one.
C5_EnterPlaying ==
    [][ (pc = "OnEnter" /\ state = "InGame") =>
           /\ Len(walls') = 4
           /\ {walls'[i].pos : i \in 1..4} =
                 {<<0, 500>>, <<0, -500>>, <<-940, 0>>, <<940, 0>>}
           /\ Len(players') = 1
           /\ players'[1].num = 15
           /\ players'[1].pos = <<200, 0>>
           /\ balls' = {}
           /\ commands' = <<>>
      ]_vars

\* C5 witness: Playing was entered again after a round in which balls had
\* been spawned and one absorbed.
C5_Witness ==
    /\ state = "InGame"
    /\ pc = "Physics"
    /\ highScore = 18
    /\ Len(players) = 1
    /\ players[1].pos = <<200, 0>>
    /\ players[1].hits = {}
    /\ "game_over" \in sounds


\* the DeathScreen state is active and its transition is over
GameOverActive == state = "DeathScreen" /\ pc \notin {"OnExit", "OnEnter"}

\* the InGame state is active: setup_game is over, handle_game_over not due
PlayingActive == state = "InGame" /\ pc \notin {"OnExit", "OnEnter"}

\* C6: while DeathScreen is the active state no entity tagged InGameEntity
\* exists: no wall, cover, player, ball or sound emitter.
C6_NoInGameEntityInGameOver ==
    GameOverActive =>
       /\ walls = <<>>
       /\ covers = <<>>
       /\ players = <<>>
       /\ balls = {}
       /\ sounds = {}

\* What does hold of the entities tagged InGameEntity while DeathScreen is
\* active: the emitter of the game-over sound is the only one.
GameOverSoundIsTheOnlySurvivor ==
    GameOverActive =>
       /\ walls = <<>>
       /\ covers = <<>>
       /\ players = <<>>
       /\ balls = {}
       /\ sounds = {"game_over"}

\* C7: exactly one player exists from the end of setup_game until
\* handle_game_over runs, so no single-player query panics; no player exists
\* while DeathScreen is active or while it is being left.
C7_ExactlyOnePlayer ==
    /\ pc # "panic"
    /\ PlayingActive => Len(players) = 1
    /\ (state = "DeathScreen" /\ pc = "OnExit") => Len(players) = 1
    /\ (state = "DeathScreen" /\ pc # "OnExit") => players = <<>>
    /\ (state = "InGame" /\ ~PlayingActive) => players = <<>>

\* C7 witness: handle_hits runs on the one player of a second round.
C7_Witness ==
    /\ state = "InGame"
    /\ pc = "handle_hits"
    /\ highScore = 15
    /\ Len(players) = 1
    /\ players[1].hits # {}

\* C8: a step queues a wall_bounce sound only when the stopwatch reads more
\* than the interval, and that step resets the stopwatch to zero; the
\* stopwatch goes down in no other step; the queue of one tick never holds
\* more than one wall_bounce sound.
C8_BounceDebounce ==
    [][ LET emitted == CountSound(commands', "wall_bounce")
                          > CountSound(commands, "wall_bounce")
        IN /\ emitted =>
                 /\ stopwatch > BOUNCE_INTERVAL
                 /\ stopwatch' = 0
                 /\ Processing
                 /\ \E hit \in Left : hit.kind = "Wall" /\ Yields(hit)
                 /\ CurPlayer.vel[1] * CurPlayer.vel[1]
                       + CurPlayer.vel[2] * CurPlayer.vel[2] > 30 * 30
           /\ stopwatch' < stopwatch => emitted
           /\ CountSound(commands', "wall_bounce") <= 1
      ]_vars

\* C8 witness: the end of a tick whose contact list is two walls, with one
\* wall_bounce sound queued and the stopwatch at zero.
C8_Witness ==
    /\ pc = "ApplyDeferred"
    /\ Len(players) = 1
    /\ Cardinality(players[1].hits) = 2
    /\ \A hit \in players[1].hits : hit.kind = "Wall"
    /\ CountSound(commands, "wall_bounce") = 1
    /\ stopwatch = 0

\* C9: CurrentScore is written by handle_game_over, which runs once in each
\* transition from InGame to DeathScreen and stores the player's number, and
\* by no other step: none of DeathScreen, none of a tick of InGame.
C9_CurrentScoreWrittenOnce ==
    [][ /\ (pc = "OnExit" /\ state = "DeathScreen") =>
              /\ Len(players) = 1
              /\ currentScore' = players[1].num
              /\ pc' = "OnEnter"
        /\ ~(pc = "OnExit" /\ state = "DeathScreen") => currentScore' = currentScore
        /\ (state = "InGame" /\ state' = "DeathScreen") => pc' = "OnExit"
      ]_vars

\* C9 witness: DeathScreen has been active for a frame, the restart is
\* pending, and CurrentScore still holds the 18 the round ended with.
C9_Witness ==
    /\ state = "DeathScreen"
    /\ pc = "StateTransition"
    /\ nextState = "InGame"
    /\ currentScore = 18
    /\ highScore = 18

\* C10: a player's number is at least 15; from one step to the next it never
\* goes down, and it goes up only in a step of handle_hits on a ball no
\* heavier than the player, by at least 1 and at most 20; every such step
\* raises it; the growth ceil(w/5) is within 1..20 for every number 1..99 a
\* ball can be spawned with.
C10_WeightGrows ==
    [][ /\ \A i \in DOMAIN players' : players'[i].num >= 15
        /\ (Len(players) = 1 /\ Len(players') = 1) =>
              LET p == players[1].num
                  q == players'[1].num
                  absorbing ==
                     Processing /\ \E hit \in Left : Absorbable(hit) /\ Yields(hit)
              IN /\ q >= p
                 /\ q # p => absorbing
                 /\ absorbing =>
                       /\ q - p >= 1 /\ q - p <= 20
                       /\ \A w \in MIN_NUMBER..MAX_NUMBER :
                             /\ player_number_change(w) >= 1
                             /\ player_number_change(w) <= 20
      ]_vars

\* C10 witness: two absorptions in one round took the player from 15 to 18
\* (a ball of 15) and on to 22 (a ball of 16, ceil(16/5) = 4).
C10_Witness ==
    /\ state = "InGame"
    /\ pc = "ApplyDeferred"
    /\ Len(players) = 1
    /\ players[1].num = 22
    /\ "ball_eaten" \in sounds
    /\ CountSound(commands, "ball_eaten") = 1

\* C11: restart_game never runs while InGame is the state, and no step taken
\* while InGame is active asks for InGame; keyboard_input, change_gravity and
\* movement never run while DeathScreen is the state, and no step taken
\* while DeathScreen is active changes the gravity, sends a movement event
\* or sets a player's velocity; once restart_game has asked for InGame the
\* request stays until the next StateTransition, which takes it, and
\* death_screen_exit and setup_game follow.
C11_InputGating ==
    [][ /\ pc = "restart_game" => state = "DeathScreen"
        /\ PlayingActive => (nextState # "InGame" /\ nextState' # "InGame")
        /\ pc \in {"keyboard_input", "change_gravity", "movement"} => state = "InGame"
        /\ GameOverActive =>
              /\ gravity' = gravity
              /\ events' = events
              /\ players = <<>>
              /\ players' = <<>>
        /\ nextState = "InGame" =>
              /\ state = "DeathScreen"
              /\ IF pc = "StateTransition"
                 THEN state' = "InGame" /\ pc' = "OnExit"
                 ELSE nextState' = "InGame"
        /\ (state = "InGame" /\ pc = "OnExit") => pc' = "OnEnter"
        /\ (state = "InGame" /\ pc = "OnEnter") => (pc' = "Physics" /\ Len(players') = 1)
      ]_vars

\* C11 witness: restart_game asked for InGame while the death screen showed
\* a score of 15 with the gravity flipped, and the transition is under way.
C11_Witness ==
    /\ state = "InGame"
    /\ pc = "OnExit"
    /\ currentScore = 15
    /\ gravity = <<0, GRAVITY>>
    /\ Len(deathScreen) = 5

\* C12: no DeathScreenEntity exists while InGame is active, nor when
\* setup_game runs, whatever the number of rounds played; the five entities
\* of the death screen exist while DeathScreen is active.
C12_NoDeathScreenEntityInPlaying ==
    /\ PlayingActive => deathScreen = <<>>
    /\ (state = "InGame" /\ pc = "OnEnter") => deathScreen = <<>>
    /\ GameOverActive => Len(deathScreen) = 5

\* C12 witness: a tick of the third round, after two death screens (scores
\* 18, then 15) were shown and torn down.
C12_Witness ==
    /\ PlayingActive
    /\ pc = "tick_stopwatch"
    /\ highScore = 18
    /\ currentScore = 15
    /\ deathScreen = <<>>

\* C13: is_out_of_bounds(p) is true exactly when p lies strictly beyond one
\* of the four edges: false for a point strictly inside, false for a point
\* on an edge and not beyond another, true for a point beyond any edge; a
\* spawn point random_point_on_bound returns is never out of bounds.
C13_OutOfBounds ==
    /\ result # <<>> =>
          LET x == arg[1]
              y == arg[2]
              inside == -940 < x /\ x < 940 /\ -500 < y /\ y < 500
              beyond == x < -940 \/ x > 940 \/ y > 500 \/ y < -500
              onEdge == ~inside /\ ~beyond
          IN /\ inside => result[1] = FALSE
             /\ onEdge => result[1] = FALSE
             /\ beyond => result[1] = TRUE
    /\ \A i \in DOMAIN VARIANTS :
          \A point \in PointsOnBound(VARIANTS[i], EdgeCoordinates) :
             ~is_out_of_bounds(point)

\* C13 witness: the corner of the right and upper edges was classified, and
\* found not out of bounds.
C13_Witness ==
    /\ arg = <<940, 500>>
    /\ result = <<FALSE>>

\* C15: for every spawn edge, aim edge and point drawn on each, the spawn
\* point and the aim point are distinct, and the velocity is a finite vector
\* of length 100.
C15_SpawnVelocity ==
    result # <<>> =>
       /\ arg[2] # arg[4]
       /\ result[1].finite
       /\ result[1].speed = 100

\* What does hold of the velocity: it is finite and of length 100 unless the
\* two points coincide, which they do only in the corner (-940, -500), for
\* the lower and the left edge.
SpawnVelocityUnlessCorner ==
    result # <<>> =>
       /\ arg[2] # arg[4] => (result[1].finite /\ result[1].speed = 100)
       /\ arg[2] = arg[4] =>
             /\ arg[2] = <<-940, -500>>
             /\ {arg[1], arg[3]} = {"LowerBound", "LeftBound"}
             /\ ~result[1].finite

\* whether a point lies on an edge, within the range random_point_on_bound
\* draws from
OnBound(bound, point) ==
    IF bound \in {"UpperBound", "LowerBound"}
    THEN /\ point[2] = value(bound)
         /\ value("LeftBound") <= point[1]
         /\ point[1] < value("RightBound")
    ELSE /\ point[1] = value(bound)
         /\ value("LowerBound") <= point[2]
         /\ point[2] < value("UpperBound")

\* the positions of the spawn commands a step adds to the queue
NewSpawns ==
    {i \in DOMAIN commands' :
        /\ commands'[i].op = "spawn_ball"
        /\ (i > Len(commands) \/ commands[i] # commands'[i])}

\* C16: a ball is spawned exactly by the spawn_ball step in which the
\* repeating 0.5 s timer completes, which runs only while InGame is active;
\* the ball is placed at a point of one edge and aimed at a point of another
\* edge, its number is an integer in 1..99, it enters the world with that
\* number, and the number of a ball alive never changes.
C16_Spawn ==
    [][ /\ NewSpawns # {} =>
              /\ pc = "spawn_ball"
              /\ PlayingActive
              /\ spawnTimer + delta >= SPAWN_INTERVAL
              /\ Cardinality(NewSpawns) = 1
        /\ (pc = "spawn_ball" /\ spawnTimer + delta >= SPAWN_INTERVAL) => NewSpawns # {}
        /\ \A i \in NewSpawns :
              LET spawned == commands'[i].ball
                  target == <<spawned.pos[1] + spawned.vel.along[1],
                              spawned.pos[2] + spawned.vel.along[2]>>
              IN /\ spawned.num \in MIN_NUMBER..MAX_NUMBER
                 /\ \E j, k \in DOMAIN VARIANTS :
                       /\ j # k
                       /\ OnBound(VARIANTS[j], spawned.pos)
                       /\ OnBound(VARIANTS[k], target)
        /\ \A b \in balls' :
              \/ \E a \in balls : a.id = b.id /\ a.num = b.num
              \/ /\ pc = "ApplyDeferred"
                 /\ \E i \in DOMAIN commands :
                       /\ commands[i].op = "spawn_ball"
                       /\ commands[i].ball.id = b.id
                       /\ commands[i].ball.num = b.num
      ]_vars

\* C16 witness: the timer completed and a ball of number 19 was queued on the
\* right edge, aimed at the middle of the lower edge.
C16_Witness ==
    /\ pc = "despawn_out_of_bounds_balls"
    /\ \E i \in DOMAIN commands :
          /\ commands[i].op = "spawn_ball"
          /\ commands[i].ball.num = 19
          /\ commands[i].ball.pos = <<940, 0>>
          /\ commands[i].ball.vel.along = <<-940, -500>>
    /\ spawnTimer = 0

\* C17: the gravity is (0, -1000) after an even number of flips and
\* (0, 1000) after an odd number and never anything else; it changes only in
\* a change_gravity step that sees Space, which runs only while InGame is
\* active, and then to its exact negation; every other step leaves it
\* unchanged; negating twice gives the value back.
C17_GravityFlip ==
    [][ /\ gravity \in {<<0, -GRAVITY>>, <<0, GRAVITY>>}
        /\ gravity' \in {<<0, -GRAVITY>>, <<0, GRAVITY>>}
        /\ (flips = 0) <=> (gravity = <<0, -GRAVITY>>)
        /\ (flips' = 0) <=> (gravity' = <<0, -GRAVITY>>)
        /\ (flips = 1) <=> (gravity = <<0, GRAVITY>>)
        /\ flips' # flips =>
              /\ pc = "change_gravity"
              /\ PlayingActive
              /\ gravity' = <<-gravity[1], -gravity[2]>>
        /\ flips' = flips => gravity' = gravity
        /\ pc # "change_gravity" => gravity' = gravity
        /\ Negated(Negated(gravity)) = gravity
        /\ Negated(gravity) # gravity
      ]_vars

\* C17 witness: Space was seen an odd number of times and the gravity points
\* up, in a round after the first.
C17_Witness ==
    /\ pc = "movement"
    /\ flips = 1
    /\ gravity = <<0, GRAVITY>>
    /\ highScore > 0

\* C18: the movement step sets the player's horizontal velocity to
\* direction x 10000 x delta for the last MovementAction of the tick alone,
\* leaves it unchanged when there is none, never changes the vertical
\* velocity, and leaves no MovementAction unread.
C18_MovementOverwrite ==
    [][ (pc = "movement" /\ Len(players) = 1) =>
           /\ Len(players') = 1
           /\ events # <<>> =>
                 players'[1].vel[1] = events[Len(events)] * MOVE_SPEED * delta
           /\ events = <<>> => players'[1].vel[1] = players[1].vel[1]
           /\ players'[1].vel[2] = players[1].vel[2]
           /\ players'[1].num = players[1].num
           /\ events' = <<>>
      ]_vars

\* C18 witness: D and A were both held, so the queue is right then left, the
\* player moves at a horizontal velocity that is neither command's, and the
\* movement step is about to run.
C18_Witness ==
    /\ pc = "movement"
    /\ events = <<1, -1>>
    /\ Len(players) = 1
    /\ players[1].vel = <<18, 24>>

\* C14: the step of handle_hits that meets a lethal ball ends the system: it
\* queues nothing and changes neither the player nor the stopwatch, and the
\* contacts the iterator had not yielded are never processed; from then to
\* the end of the tick the player's number, the stopwatch and the queue stay
\* as they were, and the balls still in contact survive the tick's commands.
C14_DeathShortCircuits ==
    [][ /\ (Processing /\ nextState = "None" /\ nextState' = "DeathScreen") =>
              /\ \E hit \in Left : Lethal(hit)
              /\ pc' = "ApplyDeferred"
              /\ hitIter' = NoIter
              /\ players' = players
              /\ stopwatch' = stopwatch
              /\ commands' = commands
        /\ (state = "InGame" /\ nextState = "DeathScreen") =>
              /\ pc # "handle_hits"
              /\ ~hitIter.on
              /\ players' = players
              /\ stopwatch' = stopwatch
              /\ \/ commands' = commands
                 \/ pc = "ApplyDeferred" /\ commands' = <<>>
              /\ pc = "ApplyDeferred" =>
                    /\ \A hit \in players[1].hits :
                          (IsBall(hit) /\ \A i \in DOMAIN commands : commands[i] # Despawn(hit.id))
                             => BallOf(hit) \in balls'
                    /\ sounds' = sounds \cup
                          {commands[i].sound : i \in {j \in DOMAIN commands :
                                                        commands[j].op = "spawn_sound"}}
      ]_vars

\* C14 witness: a player of number 15 in the corner, fast and long after the
\* last bounce, touched two walls, a ball of 15 and a ball of 16; the ball of
\* 16 came first, and the tick ended with both balls alive, no sound and the
\* number still 15.
C14_Witness ==
    /\ pc = "StateTransition"
    /\ nextState = "DeathScreen"
    /\ players[1].num = 15
    /\ sounds = {}
    /\ stopwatch = MaxElapsed
    /\ \E hit \in players[1].hits : IsWall(hit)
    /\ \E b \in balls : b.num = 15 /\ [kind |-> "Ball", id |-> b.id] \in players[1].hits
    /\ \E b \in balls : b.num = 16 /\ [kind |-> "Ball", id |-> b.id] \in players[1].hits

\* a ball the player can absorb now and a ball that is lethal now but would
\* not be once the first is absorbed
OrderDependent(first, second) ==
    /\ first \in Left
    /\ second \in Left
    /\ Absorbable(first)
    /\ Lethal(second)
    /\ BallOf(second).num <= CurPlayer.num + CeilFifth(BallOf(first).num)

\* C19: every ball contact is compared with the number the player has when
\* the contact is processed, earlier absorptions of the tick included.  When
\* the contacts left hold a ball that can be absorbed and a ball that is
\* lethal now but no heavier than the player after that absorption, both
\* orders are possible: processing the heavier ball first ends the round,
\* and processing the other first raises the number and leaves the heavier
\* ball to be absorbed in its turn.
C19_OrderDependence ==
    [][ Processing =>
           /\ \A hit \in Left :
                 (Yields(hit) /\ IsBall(hit)) =>
                    /\ (BallOf(hit).num > CurPlayer.num) <=> (nextState' = "DeathScreen")
                    /\ (BallOf(hit).num > CurPlayer.num) => players' = players
           /\ \A first, second \in Left :
                 OrderDependent(first, second) =>
                    /\ ENABLED (handle_hits /\ nextState' = "DeathScreen"
                                  /\ players' = players)
                    /\ ENABLED (/\ handle_hits
                                /\ nextState' = "None"
                                /\ players'[1].num =
                                     players[1].num + CeilFifth(BallOf(first).num)
                                /\ hitIter'.on
                                /\ second \in hitIter'.left)
                    /\ Yields(first) =>
                          /\ nextState' = "None"
                          /\ BallOf(second).num <= players'[1].num
                          /\ hitIter'.on
                          /\ second \in hitIter'.left
      ]_vars

\* C19 witness: the player of number 15 touched a ball of 15 and a ball of
\* 16; the ball of 15 came first and raised the number to 18, the ball of 16
\* was then absorbed too, and the tick ends at 22 with no death asked for.
C19_Witness ==
    /\ pc = "ApplyDeferred"
    /\ nextState = "None"
    /\ players[1].num = 22
    /\ \E b \in balls :
          /\ b.num = 16
          /\ [kind |-> "Ball", id |-> b.id] \in players[1].hits
          /\ \E i \in DOMAIN commands : commands[i] = Despawn(b.id)

\* C20: once the player's number is 99 or more, no step asks for DeathScreen
\* or stops the program, no step lowers the number, and every absorption
\* raises it.
C20_NoDeathFromNinetyNine ==
    [][ (state = "InGame" /\ Len(players) = 1 /\ players[1].num >= MAX_NUMBER) =>
           /\ nextState' # "DeathScreen"
           /\ pc' # "panic"
           /\ Len(players') = 1
           /\ players'[1].num >= players[1].num
           /\ Processing =>
                 \A hit \in Left :
                    (Yields(hit) /\ IsBall(hit)) => players'[1].num > players[1].num
      ]_vars

\* What does hold from 99 on: as long as the sum fits an i32 no contact is
\* lethal and every absorption adds ceil(w / 5); the absorption whose sum
\* passes i32::MAX either stops the program or leaves a negative number, and
\* from a negative number every ball is lethal.
NoDeathWhileTheSumFits ==
    [][ (state = "InGame" /\ Len(players) = 1) =>
           /\ (players[1].num >= MAX_NUMBER /\ players[1].num <= I32_MAX - 20) =>
                 /\ nextState' # "DeathScreen"
                 /\ pc' # "panic"
                 /\ players'[1].num >= players[1].num
                 /\ players'[1].num <= players[1].num + 20
                 /\ Processing =>
                       \A hit \in Left :
                          (Yields(hit) /\ IsBall(hit)) =>
                             players'[1].num =
                                players[1].num + CeilFifth(BallOf(hit).num)
           /\ (Processing /\ players[1].num > I32_MAX - 20) =>
                 \A hit \in Left :
                    (/\ Yields(hit)
                     /\ IsBall(hit)
                     /\ CeilFifth(BallOf(hit).num) > I32_MAX - players[1].num) =>
                       \/ pc' = "panic"
                       \/ players'[1].num < 0
           /\ (Processing /\ players[1].num < 0) =>
                 \A hit \in Left :
                    (Yields(hit) /\ IsBall(hit)) => nextState' = "DeathScreen"
      ]_vars

\* the overflow followed by a death in the same tick
DeathAfterOverflow ==
    /\ pc = "ApplyDeferred"
    /\ nextState = "DeathScreen"
    /\ players[1].num < 0

====
